---- MODULE Spec2Model ----
(***************************************************************************)
(* A model of changify (src/changify/ard.py): the affine / tile-grid       *)
(* arithmetic, the ARD filename parser and filters, and the memoised       *)
(* tarball catalogue.                                                      *)
(*                                                                         *)
(* Python tuples are indexed from 0, TLA+ tuples from 1: affine[0] of the  *)
(* source is aff[1] here, and so on.  Numbers are integers: int(a / b) is  *)
(* the exact quotient truncated toward zero, which is what true division   *)
(* followed by int() gives for every integer operand in the ranges used.   *)
(***************************************************************************)
EXTENDS Integers, Sequences, FiniteSets, TLC

VARIABLES
    call,               \* the call that has just returned: [op, args, result]
    prev,               \* the call before it, when the current call consumed its result
    disk,               \* the directories: path -> what os.listdir(path) returns now
    tarfiles_cache,     \* lru_cache of tarfiles, least recently used entry first
    filters_cache,      \* lru_cache of filters
    dirlisting_cache,   \* lru_cache of dirlisting
    filenameattr_cache, \* lru_cache of filenameattr
    firstSeen,          \* history: path -> what its first dirlisting returned
    since,              \* history: path -> the other paths listed since it was last listed
    kept,               \* history: path -> fewer than dirlisting's maxsize others came between its listings
    pc,                 \* retry's wrapper: where it stands
    retries,            \* retry's wrapper: the argument of retry
    count,              \* retry's wrapper: its counter
    raised,             \* retry's wrapper: the exception being handled or propagated
    invocations         \* history: how many times the wrapper has called func

caches == <<tarfiles_cache, filters_cache, dirlisting_cache, filenameattr_cache>>

history == <<firstSeen, since, kept>>

catalogue == <<disk, caches, history>>

wrapper == <<pc, retries, count, raised, invocations>>

vars == <<call, prev, catalogue, wrapper>>

NoCall == [op |-> "none"]

----------------------------------------------------------------------------
(* Bounds of the model *)

MaxK == 3        \* rows / columns / small coordinates range over -MaxK..MaxK
MaxHV == 2       \* tile indices h, v range over 0..MaxHV
MaxVal == 65     \* fifteen_offset is applied to -MaxVal..MaxVal
MaxRetries == 5  \* retry is given 0..MaxRetries
MaxListing == 2  \* a directory holds at most MaxListing files
NumPaths == 10   \* the tile directories are 0..NumPaths-1

Paths == 0 .. NumPaths - 1

----------------------------------------------------------------------------
(* Containers: NamedTuples, kept as a class tag and the positional tuple *)

GeoExtent(xmin, ymax, xmax, ymin) == [cls |-> "GeoExtent", t |-> <<xmin, ymax, xmax, ymin>>]

GeoCoordinate(x, y) == [cls |-> "GeoCoordinate", t |-> <<x, y>>]

RowColumn(row, column) == [cls |-> "RowColumn", t |-> <<row, column>>]

RowColumnExtent(st_row, st_col, end_row, end_col) ==
    [cls |-> "RowColumnExtent", t |-> <<st_row, st_col, end_row, end_col>>]

TypeError == [cls |-> "TypeError"]

----------------------------------------------------------------------------
(* Arithmetic *)

Abs(n) == IF n < 0 THEN -n ELSE n

\* int(n / d): true division, then int() truncates toward zero (d # 0)
IntOfQuotient(n, d) ==
    IF (n < 0) = (d < 0) THEN Abs(n) \div Abs(d) ELSE -(Abs(n) \div Abs(d))

\* n // d for d > 0: floor division
FloorDiv(n, d) == n \div d

----------------------------------------------------------------------------
(* ard_hv *)

\* a variant whose tiles start one column too far east
ard_hv_shifted(h, v, extent) ==
    LET xmin == extent.t[1] + (h + 1) * 5000 * 30
        xmax == extent.t[1] + (h + 1) * 5000 * 30 + 5000 * 30
        ymax == extent.t[2] - v * 5000 * 30
        ymin == extent.t[2] - v * 5000 * 30 - 5000 * 30
    IN  <<GeoExtent(xmin, ymax, xmax, ymin), <<xmin, 30, 0, ymax, 0, -30>>>>

ard_hv(h, v, extent) ==
    LET xmin == extent.t[1] + h * 5000 * 30
        xmax == extent.t[1] + h * 5000 * 30 + 5000 * 30
        ymax == extent.t[2] - v * 5000 * 30
        ymin == extent.t[2] - v * 5000 * 30 - 5000 * 30
    IN  <<GeoExtent(xmin, ymax, xmax, ymin), <<xmin, 30, 0, ymax, 0, -30>>>>

(* fifteen_offset *)

\* a variant that truncates toward zero instead of flooring
fifteen_offset_trunc(val) == IntOfQuotient(val, 30) * 30 + 15

fifteen_offset(val) == FloorDiv(val, 30) * 30 + 15

(* transform_geo *)

\* a variant that floors the quotients instead of truncating them
FloorOfQuotient(n, d) == IF d < 0 THEN (-n) \div (-d) ELSE n \div d

transform_geo_floor(coord, affine) ==
    LET col == FloorOfQuotient(coord.t[1] - affine[1] - affine[4] * affine[3], affine[2])
        row == FloorOfQuotient(coord.t[2] - affine[4] - affine[1] * affine[5], affine[6])
    IN  RowColumn(row, col)

transform_geo(coord, affine) ==
    LET col == IntOfQuotient(coord.t[1] - affine[1] - affine[4] * affine[3], affine[2])
        row == IntOfQuotient(coord.t[2] - affine[4] - affine[1] * affine[5], affine[6])
    IN  RowColumn(row, col)

(* transform_rc *)

\* a variant that reads (column, row) where the source reads (row, column)
transform_rc_swapped(rowcol, affine) ==
    LET x == affine[1] + rowcol.t[1] * affine[2] + rowcol.t[2] * affine[3]
        y == affine[4] + rowcol.t[1] * affine[5] + rowcol.t[2] * affine[6]
    IN  GeoCoordinate(x, y)

transform_rc(rowcol, affine) ==
    LET x == affine[1] + rowcol.t[2] * affine[2] + rowcol.t[1] * affine[3]
        y == affine[4] + rowcol.t[2] * affine[5] + rowcol.t[1] * affine[6]
    IN  GeoCoordinate(x, y)

(* split_extent: <<UL, LR>>, or TypeError *)

split_extent(extent) ==
    IF extent.cls = "GeoExtent"
    THEN <<GeoCoordinate(extent.t[1], extent.t[2]), GeoCoordinate(extent.t[3], extent.t[4])>>
    ELSE IF extent.cls = "RowColumnExtent"
    THEN <<RowColumn(extent.t[1], extent.t[2]), RowColumn(extent.t[3], extent.t[4])>>
    ELSE TypeError

(* transform_ext: both corners mapped, the two results chained into the other extent type *)

\* a variant that assembles the pixel extent as (col, row, col, row)
transform_ext_unordered(extent, affine) ==
    IF extent.cls = "GeoExtent"
    THEN LET pts == split_extent(extent)
             ul == transform_geo(pts[1], affine)
             lr == transform_geo(pts[2], affine)
         IN  RowColumnExtent(ul.t[2], ul.t[1], lr.t[2], lr.t[1])
    ELSE IF extent.cls = "RowColumnExtent"
    THEN LET pts == split_extent(extent)
             ul == transform_rc(pts[1], affine)
             lr == transform_rc(pts[2], affine)
         IN  GeoExtent(ul.t[1], ul.t[2], lr.t[1], lr.t[2])
    ELSE TypeError

transform_ext(extent, affine) ==
    IF extent.cls = "GeoExtent"
    THEN LET pts == split_extent(extent)
             ul == transform_geo(pts[1], affine)
             lr == transform_geo(pts[2], affine)
         IN  RowColumnExtent(ul.t[1], ul.t[2], lr.t[1], lr.t[2])
    ELSE IF extent.cls = "RowColumnExtent"
    THEN LET pts == split_extent(extent)
             ul == transform_rc(pts[1], affine)
             lr == transform_rc(pts[2], affine)
         IN  GeoExtent(ul.t[1], ul.t[2], lr.t[1], lr.t[2])
    ELSE TypeError

(* determine_hv: transform_geo(coord, aff)[::-1] *)

\* a variant that forgets the reversal and returns (row, column)
determine_hv_unswapped(coord, aff) ==
    LET rc == transform_geo(coord, aff) IN <<rc.t[1], rc.t[2]>>

determine_hv(coord, aff) ==
    LET rc == transform_geo(coord, aff) IN <<rc.t[2], rc.t[1]>>

(* chipul *)

chipul(coord, chip_aff) ==
    LET rc == transform_geo(coord, chip_aff) IN transform_rc(rc, chip_aff)

(* extract_rcextent: the arguments handed to ReadAsArray *)

extract_rcextent(rc_extent) ==
    LET pts == split_extent(rc_extent)
        ul == pts[1]
        lr == pts[2]
    IN  [xoff |-> ul.t[2], yoff |-> ul.t[1],
         xsize |-> lr.t[2] - ul.t[2], ysize |-> lr.t[1] - ul.t[1]]

(* extract_geoextent: raster_aff is raster_affine(path) *)

extract_geoextent(raster_aff, geo_extent) ==
    extract_rcextent(transform_ext(geo_extent, raster_aff))

(* extract_chip *)

extract_chip(raster_aff, coord, chip_aff) ==
    LET chip_ul == chipul(coord, chip_aff)
        chip_ext == GeoExtent(chip_ul.t[1], chip_ul.t[2],
                              chip_ul.t[1] + 3000, chip_ul.t[2] - 3000)
    IN  extract_geoextent(raster_aff, chip_ext)

----------------------------------------------------------------------------
(* Strings are sequences of one-character strings.  A call that can raise  *)
(* returns Ok(value) or Raise(exception).                                  *)

Ok(v) == [err |-> "none", val |-> v]

Raise(e) == [err |-> e]

\* F applied to the value of v: v is evaluated once, like a Python local
Let(v, F(_)) == CHOOSE out \in {F(x) : x \in {v}} : TRUE

Min(a, b) == IF a < b THEN a ELSE b

Max(a, b) == IF a < b THEN b ELSE a

\* s[:-4]
DropLast4(s) == IF Len(s) <= 4 THEN <<>> ELSE SubSeq(s, 1, Len(s) - 4)

\* s[:3]
First3(s) == SubSeq(s, 1, Min(3, Len(s)))

\* s[-3:]
Last3(s) == SubSeq(s, Max(1, Len(s) - 2), Len(s))

\* s.split(sep), sep one character: the pieces between the separators, one
\* more than there are separators
split(s, sep) ==
    LET at == {i \in 1 .. Len(s) : s[i] = sep}
        \* the position of the k-th separator; 0 and Len(s) + 1 bound the string
        Nth(k) == IF k = 0 THEN 0
                  ELSE IF k = Cardinality(at) + 1 THEN Len(s) + 1
                  ELSE CHOOSE i \in at : Cardinality({j \in at : j < i}) = k - 1
    IN  [k \in 1 .. Cardinality(at) + 1 |-> SubSeq(s, Nth(k - 1) + 1, Nth(k) - 1)]

\* s.replace(c, '')
RemoveChar(s, c) == SelectSeq(s, LAMBDA x : x # c)

\* s.endswith(suffix)
endswith(s, suffix) ==
    /\ Len(suffix) <= Len(s)
    /\ SubSeq(s, Len(s) - Len(suffix) + 1, Len(s)) = suffix

DigitChars == <<"0", "1", "2", "3", "4", "5", "6", "7", "8", "9">>

IsDigit(c) == \E d \in 1 .. 10 : DigitChars[d] = c

DigitValue(c) == (CHOOSE d \in 1 .. 10 : DigitChars[d] = c) - 1

\* the number the first n characters of s, all digits, write
RECURSIVE DigitsValueTo(_, _)
DigitsValueTo(s, n) ==
    IF n = 0 THEN 0 ELSE DigitsValueTo(s, n - 1) * 10 + DigitValue(s[n])

DigitsValue(s) == DigitsValueTo(s, Len(s))

\* int(s): an optional sign and at least one decimal digit, or ValueError
\* (the strings of the model hold no white space and no underscore here)
int(s) ==
    LET signed == s # <<>> /\ s[1] \in {"+", "-"}
        digits == IF signed THEN Tail(s) ELSE s
    IN  IF digits = <<>> \/ \E i \in 1 .. Len(digits) : ~IsDigit(digits[i])
        THEN Raise("ValueError")
        ELSE IF signed /\ s[1] = "-" THEN Ok(-DigitsValue(digits))
        ELSE Ok(DigitsValue(digits))

(* filenameattr, without its cache: the arguments of ARDattributes(...) are *)
(* evaluated left to right, and the first that fails raises                 *)

\* a variant that takes h from the last and v from the first three characters
filenameattr_hv_swapped(filename) ==
    Let(split(DropLast4(filename), "_"), LAMBDA attributes :
        IF Len(attributes) < 3 THEN Raise("IndexError")
        ELSE IF \E x \in {First3(attributes[3]), Last3(attributes[3])} : int(x).err # "none"
        THEN Raise("ValueError")
        ELSE IF Len(attributes) < 5 THEN Raise("IndexError")
        ELSE IF \E f \in {4, 5} : int(attributes[f]).err # "none" THEN Raise("ValueError")
        ELSE IF Len(attributes) < 8 THEN Raise("IndexError")
        ELSE Ok([sensor |-> attributes[1], region |-> attributes[2],
                 h |-> int(Last3(attributes[3])).val, v |-> int(First3(attributes[3])).val,
                 acqdate |-> int(attributes[4]).val, procdate |-> int(attributes[5]).val,
                 collec |-> attributes[6], version |-> attributes[7],
                 contents |-> attributes[8]]))

filenameattr(filename) ==
    Let(split(DropLast4(filename), "_"), LAMBDA attributes :
        LET n == Len(attributes)
        IN  IF n < 3 THEN Raise("IndexError")
            ELSE LET h == int(First3(attributes[3]))
                     v == int(Last3(attributes[3]))
                 IN  IF h.err # "none" THEN h
                     ELSE IF v.err # "none" THEN v
                     ELSE IF n < 4 THEN Raise("IndexError")
                     ELSE IF int(attributes[4]).err # "none" THEN int(attributes[4])
                     ELSE IF n < 5 THEN Raise("IndexError")
                     ELSE IF int(attributes[5]).err # "none" THEN int(attributes[5])
                     ELSE IF n < 8 THEN Raise("IndexError")
                     ELSE Ok([sensor |-> attributes[1], region |-> attributes[2],
                              h |-> h.val, v |-> v.val,
                              acqdate |-> int(attributes[4]).val,
                              procdate |-> int(attributes[5]).val,
                              collec |-> attributes[6], version |-> attributes[7],
                              contents |-> attributes[8]]))

----------------------------------------------------------------------------
(* functools.lru_cache: a sequence of [key, val], least recently used      *)
(* first.  A hit moves the entry to the end; a miss appends the new entry  *)
(* and, at maxsize entries, drops the first.  A call that raises stores    *)
(* nothing.                                                                *)

CacheHas(cache, key) == \E i \in 1 .. Len(cache) : cache[i].key = key

CacheGet(cache, key) == cache[CHOOSE i \in 1 .. Len(cache) : cache[i].key = key].val

\* a variant that leaves a hit entry where it is (first in, first out)
CacheHit_fifo(cache, key) == cache

CacheHit(cache, key) ==
    SelectSeq(cache, LAMBDA e : e.key # key) \o <<[key |-> key, val |-> CacheGet(cache, key)]>>

CacheMiss(cache, key, val, maxsize) ==
    Append(IF Len(cache) >= maxsize THEN Tail(cache) ELSE cache, [key |-> key, val |-> val])

(* The sizes of the four caches *)

filenameattr_maxsize == 3

tarfiles_maxsize == 72

filters_maxsize == 3

dirlisting_maxsize == 9

\* filenameattr through its cache: [res, cache]
filenameattr_cached(cache, filename) ==
    IF CacheHas(cache, filename)
    THEN [res |-> Ok(CacheGet(cache, filename)), cache |-> CacheHit(cache, filename)]
    ELSE Let(filenameattr(filename), LAMBDA r :
             IF r.err # "none" THEN [res |-> r, cache |-> cache]
             ELSE [res |-> r, cache |-> CacheMiss(cache, filename, r.val, filenameattr_maxsize)])

----------------------------------------------------------------------------
(* The filters: each returns [res, cache], cache being filenameattr's *)

\* a variant whose upper end is exclusive
filter_date_exclusive(cache, filename, dates) ==
    Let(split(RemoveChar(dates, "-"), "/"), LAMBDA parts :
    Let(filenameattr_cached(cache, filename), LAMBDA a :
        IF Len(parts) # 2 \/ a.res.err # "none" \/ int(parts[1]).err # "none"
           \/ int(parts[2]).err # "none"
        THEN [res |-> Raise("ValueError"), cache |-> a.cache]
        ELSE [res |-> Ok(int(parts[1]).val <= a.res.val.acqdate
                         /\ a.res.val.acqdate < int(parts[2]).val),
              cache |-> a.cache]))

\* fr, to = dates.replace('-', '').split('/'); int(fr) <= acq <= int(to),
\* where int(to) is evaluated only when int(fr) <= acq
filter_date(cache, filename, dates) ==
    Let(split(RemoveChar(dates, "-"), "/"), LAMBDA parts :
        IF Len(parts) # 2 THEN [res |-> Raise("ValueError"), cache |-> cache]
        ELSE Let(filenameattr_cached(cache, filename), LAMBDA a :
             LET fr == int(parts[1])
                 to == int(parts[2])
             IN  IF a.res.err # "none" THEN a
                 ELSE IF fr.err # "none" THEN [res |-> fr, cache |-> a.cache]
                 ELSE IF ~(fr.val <= a.res.val.acqdate) THEN [res |-> Ok(FALSE), cache |-> a.cache]
                 ELSE IF to.err # "none" THEN [res |-> to, cache |-> a.cache]
                 ELSE [res |-> Ok(a.res.val.acqdate <= to.val), cache |-> a.cache]))

\* filename.endswith('{}.tar'.format(tar))
filter_tar(cache, filename, tar) ==
    [res |-> Ok(endswith(filename, tar \o <<".", "t", "a", "r">>)), cache |-> cache]

filter_reg(cache, filename, region) ==
    Let(filenameattr_cached(cache, filename), LAMBDA a :
        IF a.res.err # "none" THEN a
        ELSE [res |-> Ok(a.res.val.region = region), cache |-> a.cache])

\* a variant that hands the region to filter_tar and the suffix to filter_reg
filters_swapped(acquired, region, tar) ==
    <<[f |-> "filter_date", arg |-> acquired],
      [f |-> "filter_tar", arg |-> region],
      [f |-> "filter_reg", arg |-> tar]>>

\* filters, without its cache: the three partial applications, in this order
filters(acquired, region, tar) ==
    <<[f |-> "filter_date", arg |-> acquired],
      [f |-> "filter_tar", arg |-> tar],
      [f |-> "filter_reg", arg |-> region]>>

\* one partial application applied to a filename
ApplyFilter(cache, flt, x) ==
    IF flt.f = "filter_date" THEN filter_date(cache, x, flt.arg)
    ELSE IF flt.f = "filter_tar" THEN filter_tar(cache, x, flt.arg)
    ELSE filter_reg(cache, x, flt.arg)

\* all(f(x) for f in fs): stops at the first false, raises what a filter raises
RECURSIVE all_filters(_, _, _)
all_filters(cache, fs, x) ==
    IF fs = <<>> THEN [res |-> Ok(TRUE), cache |-> cache]
    ELSE Let(ApplyFilter(cache, Head(fs), x), LAMBDA r :
             IF r.res.err # "none" THEN r
             ELSE IF ~r.res.val THEN r
             ELSE all_filters(r.cache, Tail(fs), x))

\* [x for x in listing if all(f(x) for f in fs)]
RECURSIVE select_files(_, _, _)
select_files(cache, fs, listing) ==
    IF listing = <<>> THEN [res |-> Ok(<<>>), cache |-> cache]
    ELSE Let(all_filters(cache, fs, Head(listing)), LAMBDA r :
             IF r.res.err # "none" THEN r
             ELSE Let(select_files(r.cache, fs, Tail(listing)), LAMBDA rest :
                  IF rest.res.err # "none" THEN rest
                  ELSE [res |-> Ok(IF r.res.val THEN <<Head(listing)>> \o rest.res.val
                                   ELSE rest.res.val),
                        cache |-> rest.cache]))

\* dirlisting through its cache: [res, cache]; a miss reads the directory
dirlisting(cache, path) ==
    IF CacheHas(cache, path)
    THEN [res |-> Ok(CacheGet(cache, path)), cache |-> CacheHit(cache, path)]
    ELSE [res |-> Ok(disk[path]),
          cache |-> CacheMiss(cache, path, disk[path], dirlisting_maxsize)]

\* filters through its cache: [res, cache]
filters_cached(cache, acquired, region, tar) ==
    LET key == <<acquired, region, tar>>
    IN  IF CacheHas(cache, key)
        THEN [res |-> Ok(CacheGet(cache, key)), cache |-> CacheHit(cache, key)]
        ELSE Let(filters(acquired, region, tar), LAMBDA fs :
                 [res |-> Ok(fs), cache |-> CacheMiss(cache, key, fs, filters_maxsize)])

\* tarfiles through its cache: the result and the four caches after the call
tarfiles(path, acquired, region, tar) ==
    LET key == <<path, acquired, region, tar>>
    IN  IF CacheHas(tarfiles_cache, key)
        THEN [res |-> Ok(CacheGet(tarfiles_cache, key)),
              tarfiles_cache |-> CacheHit(tarfiles_cache, key),
              filters_cache |-> filters_cache,
              dirlisting_cache |-> dirlisting_cache,
              filenameattr_cache |-> filenameattr_cache]
        ELSE Let(filters_cached(filters_cache, acquired, region, tar), LAMBDA fs :
             Let(dirlisting(dirlisting_cache, path), LAMBDA d :
             Let(select_files(filenameattr_cache, fs.res.val, d.res.val), LAMBDA sel :
                 [res |-> sel.res,
                  tarfiles_cache |-> IF sel.res.err # "none" THEN tarfiles_cache
                                     ELSE CacheMiss(tarfiles_cache, key, sel.res.val,
                                                    tarfiles_maxsize),
                  filters_cache |-> fs.cache,
                  dirlisting_cache |-> d.cache,
                  filenameattr_cache |-> sel.cache])))

----------------------------------------------------------------------------
(* Inputs of the geometry calls *)

Small == -MaxK .. MaxK

\* the affine and the coordinate of test_ard.py
tst_aff == <<-1815585, 30, 0, 3014805, 0, -30>>

tst_coord == GeoCoordinate(-1701195, 3005565)

\* the reference extent of the ard_hv docstring
ardconus == GeoExtent(-2565585, 3314805, 2384415, 14805)

Axis == Small \cup {15 * k : k \in Small}

Coordinates == {GeoCoordinate(x, y) : x \in Axis, y \in Axis} \cup {tst_coord}

ZeroRotAffines ==
    {<<a0, a1, 0, a3, 0, a5>> : a0 \in {-15, 0}, a1 \in {30, 7, -2},
                                 a3 \in {0, 45}, a5 \in {-30, -7, 2}} \cup {tst_aff}

RotatedAffines ==
    {<<a0, a1, a2, 45, a4, a5>> : a0 \in {-15, 0}, a1 \in {30, -2}, a2 \in {0, 1},
                                   a4 \in {0, -1}, a5 \in {-30, 2}}

Affines == ZeroRotAffines \cup RotatedAffines

IsZeroRot(aff) == aff[3] = 0 /\ aff[5] = 0

RowColumns == {RowColumn(r, c) : r \in Small, c \in Small} \cup {RowColumn(308, 3813)}

GeoExtents ==
    {GeoExtent(c.t[1], c.t[2], c.t[1] + w, c.t[2] - hgt) :
        c \in Coordinates, w \in {7, 30}, hgt \in {7, 30}}
    \cup {GeoExtent(-1701585, 3005805, -1701555, 3005775)}

RowColumnExtents ==
    {RowColumnExtent(rc.t[1], rc.t[2], rc.t[1] + dr, rc.t[2] + dc) :
        rc \in RowColumns, dr \in {1, 2}, dc \in {1, 2}}

RefExtents == {ardconus, GeoExtent(0, 0, 4950000, -3300000), GeoExtent(-7, 11, 4949993, -3299989)}

\* the tile grid affine of a reference extent (config.yaml, 'conus-tileaff')
TileGridAffine(ref) == <<ref.t[1], 5000 * 30, 0, ref.t[2], 0, -(5000 * 30)>>

TileOffsets == {0, 1, 75000, 149999, 150000}

\* distances east of the region's xmin and south of its ymax: on the grid
\* lines, next to them, and outside the region to the west and north
GridOffsets ==
    {-150001, -150000, -149999, -75000, -1, 0, 1, 149999, 150000, 150001, 300000}

ChipAffines ==
    {<<0, 3000, 0, 0, 0, -3000>>, <<0, 30, 0, 0, 0, -30>>, <<-15, 30, 0, 15, 0, -30>>, tst_aff}

RasterAffines ==
    {<<ox, 30, 0, oy, 0, -30>> : ox \in {-3000, -15, 0, 15}, oy \in {3000, 15, 0, -15}}
    \cup {tst_aff}

ChipCoordinates == Coordinates \cup {GeoCoordinate(-1707541, 2996742)}

----------------------------------------------------------------------------
(* The calls.  A process starts with no call made; a call either takes     *)
(* fresh arguments or consumes the result of the call before it.           *)

Fresh == call.op = "none"

After(op) == call.op = op /\ prev.op = "none"

Ard_hv ==
    /\ Fresh
    /\ \E h \in 0 .. MaxHV, v \in 0 .. MaxHV, ref \in RefExtents :
          call' = [op |-> "ard_hv", args |-> [h |-> h, v |-> v, extent |-> ref],
                   result |-> ard_hv(h, v, ref)]
    /\ UNCHANGED <<prev, catalogue, wrapper>>

\* determine_hv on a point of the tile just computed (corner, edge or interior)
Determine_hvInTile ==
    /\ After("ard_hv")
    /\ \E dx \in TileOffsets, dy \in TileOffsets :
          LET ext == call.result[1]
              p == GeoCoordinate(ext.t[1] + dx, ext.t[4] + dy)
              G == TileGridAffine(call.args.extent)
          IN  call' = [op |-> "determine_hv", args |-> [coord |-> p, aff |-> G],
                       result |-> determine_hv(p, G)]
    /\ prev' = call
    /\ UNCHANGED <<catalogue, wrapper>>

\* layerstochips, first line: determine_hv on a coordinate of the region, or
\* next to it
Determine_hv ==
    /\ Fresh
    /\ \E ref \in RefExtents, dx \in GridOffsets, dy \in GridOffsets :
          LET p == GeoCoordinate(ref.t[1] + dx, ref.t[2] - dy)
              G == TileGridAffine(ref)
          IN  call' = [op |-> "determine_hv", args |-> [coord |-> p, aff |-> G],
                       result |-> determine_hv(p, G)]
    /\ UNCHANGED <<prev, catalogue, wrapper>>

\* layerstochips, second line: ard_hv of the h and v just determined, with
\* the reference extent of the same region
Ard_hvOfResult ==
    /\ After("determine_hv")
    /\ \E ref \in RefExtents :
          /\ TileGridAffine(ref) = call.args.aff
          /\ call' = [op |-> "ard_hv",
                      args |-> [h |-> call.result[1], v |-> call.result[2], extent |-> ref],
                      result |-> ard_hv(call.result[1], call.result[2], ref)]
    /\ prev' = call
    /\ UNCHANGED <<catalogue, wrapper>>

Fifteen_offset ==
    /\ Fresh
    /\ \E val \in -MaxVal .. MaxVal :
          call' = [op |-> "fifteen_offset", args |-> [val |-> val],
                   result |-> fifteen_offset(val)]
    /\ UNCHANGED <<prev, catalogue, wrapper>>

Transform_geo ==
    /\ Fresh
    /\ \E coord \in Coordinates, aff \in Affines :
          call' = [op |-> "transform_geo", args |-> [coord |-> coord, affine |-> aff],
                   result |-> transform_geo(coord, aff)]
    /\ UNCHANGED <<prev, catalogue, wrapper>>

Transform_rc ==
    /\ Fresh
    /\ \E rc \in RowColumns, aff \in Affines :
          call' = [op |-> "transform_rc", args |-> [rowcol |-> rc, affine |-> aff],
                   result |-> transform_rc(rc, aff)]
    /\ UNCHANGED <<prev, catalogue, wrapper>>

\* transform_geo of the coordinate transform_rc returned, same affine
Transform_geoOfResult ==
    /\ After("transform_rc")
    /\ call' = [op |-> "transform_geo",
                args |-> [coord |-> call.result, affine |-> call.args.affine],
                result |-> transform_geo(call.result, call.args.affine)]
    /\ prev' = call
    /\ UNCHANGED <<catalogue, wrapper>>

\* transform_rc of the row/column transform_geo returned, same affine
Transform_rcOfResult ==
    /\ After("transform_geo")
    /\ call' = [op |-> "transform_rc",
                args |-> [rowcol |-> call.result, affine |-> call.args.affine],
                result |-> transform_rc(call.result, call.args.affine)]
    /\ prev' = call
    /\ UNCHANGED <<catalogue, wrapper>>

Transform_ext ==
    /\ Fresh
    /\ \E ext \in GeoExtents \cup RowColumnExtents, aff \in ZeroRotAffines :
          call' = [op |-> "transform_ext", args |-> [extent |-> ext, affine |-> aff],
                   result |-> transform_ext(ext, aff)]
    /\ UNCHANGED <<prev, catalogue, wrapper>>

\* transform_ext of the extent transform_ext returned, same affine
Transform_extOfResult ==
    /\ After("transform_ext")
    /\ call' = [op |-> "transform_ext",
                args |-> [extent |-> call.result, affine |-> call.args.affine],
                result |-> transform_ext(call.result, call.args.affine)]
    /\ prev' = call
    /\ UNCHANGED <<catalogue, wrapper>>

Extract_chip ==
    /\ Fresh
    /\ \E coord \in ChipCoordinates, chip_aff \in ChipAffines, raster_aff \in RasterAffines :
          call' = [op |-> "extract_chip",
                   args |-> [coord |-> coord, chip_aff |-> chip_aff, raster_aff |-> raster_aff],
                   result |-> extract_chip(raster_aff, coord, chip_aff)]
    /\ UNCHANGED <<prev, catalogue, wrapper>>

----------------------------------------------------------------------------
(* Inputs of the catalogue calls: ARD file names, written the way the      *)
(* archive writes them                                                     *)

\* '{:0<width>d}'.format(n)
RECURSIVE Pad(_, _)
Pad(n, width) ==
    IF width = 0 THEN <<>> ELSE Pad(n \div 10, width - 1) \o <<DigitChars[(n % 10) + 1]>>

\* sep.join(fields)
RECURSIVE join(_, _)
join(fields, sep) ==
    IF Len(fields) = 0 THEN <<>>
    ELSE IF Len(fields) = 1 THEN fields[1]
    ELSE fields[1] \o <<sep>> \o join(Tail(fields), sep)

LT05 == <<"L", "T", "0", "5">>
CU == <<"C", "U">>
AK == <<"A", "K">>
SR == <<"S", "R">>
BT == <<"B", "T">>
QA == <<"Q", "A">>
C01 == <<"C", "0", "1">>
V01 == <<"V", "0", "1">>
DotTar == <<".", "t", "a", "r">>

\* the fields of the name of a tarball with these attributes
ARDFields(m) ==
    <<m.sensor, m.region, Pad(m.h, 3) \o Pad(m.v, 3), Pad(m.acqdate, 8),
      Pad(m.procdate, 8), m.collec, m.version, m.contents>>

ARDName(m) == join(ARDFields(m), "_") \o DotTar

\* 'YYYY-MM-DD/YYYY-MM-DD'
ISODate(d) ==
    LET s == Pad(d, 8)
    IN  SubSeq(s, 1, 4) \o <<"-">> \o SubSeq(s, 5, 6) \o <<"-">> \o SubSeq(s, 7, 8)

ISORange(fr, to) == ISODate(fr) \o <<"/">> \o ISODate(to)

Attributes ==
    [sensor : {LT05}, region : {CU, AK}, h : {5}, v : {2},
     acqdate : {19850301, 19850302, 19850303}, procdate : {20170711},
     collec : {C01}, version : {V01}, contents : {SR, BT}]

\* LT05_CU_005002_19850302_20170711_C01_V01_SR.tar of test_ard.py
tst_attributes ==
    [sensor |-> LT05, region |-> CU, h |-> 5, v |-> 2, acqdate |-> 19850302,
     procdate |-> 20170711, collec |-> C01, version |-> V01, contents |-> SR]

tst_filename == ARDName(tst_attributes)

WellFormedNames == {ARDName(m) : m \in Attributes}

\* the attributes a well-formed name was written from
AttributesOf(name) == CHOOSE m \in Attributes : ARDName(m) = name

tst_fields == ARDFields(tst_attributes)

\* a name of the given fields
NameOf(fields) == join(fields, "_") \o DotTar

Readme == <<"R", "E", "A", "D", "M", "E", ".", "t", "x", "t">>

SevenFields == NameOf(SubSeq(tst_fields, 1, 7))

NineFields == NameOf(SubSeq(tst_fields, 1, 7) \o <<QA, SR>>)

TwoFields == NameOf(<<LT05, CU>>)

BadAcqDate == NameOf([tst_fields EXCEPT ![4] = <<"1", "9", "8", "5", "0", "3", "0", "A">>])

BadProcDate == NameOf([tst_fields EXCEPT ![5] = <<"2", "0", "1", "7", "X", "7", "1", "1">>])

\* a third field that is no number, though its first and last three characters are
LongHV == NameOf([tst_fields EXCEPT ![3] = <<"0", "0", "5", "X", "0", "0", "2">>])

BadH == NameOf([tst_fields EXCEPT ![3] = <<"0", "X", "5", "0", "0", "2">>])

BadV == NameOf([tst_fields EXCEPT ![3] = <<"0", "0", "5", "0", "0", "V">>])

\* four fields, the third not numeric
BadHFourFields == NameOf(<<LT05, CU, <<"H", "0", "5", "V", "0", "2">>, Pad(19850302, 8)>>)

MalformedNames ==
    {Readme, SevenFields, NineFields, TwoFields, BadAcqDate, BadProcDate, LongHV, BadH,
     BadV, BadHFourFields}

Filenames == WellFormedNames \cup MalformedNames

\* the names a directory of the model may hold
DirectoryFiles ==
    {n \in WellFormedNames : AttributesOf(n).acqdate # 19850301}
    \cup {Readme, NineFields, BadAcqDate}

\* the ends of the ranges asked for: those of test_ard.py and a single day
RangeEnds ==
    {<<19840101, 19850302>>, <<19850302, 19900101>>, <<19850303, 19870101>>,
     <<19850302, 19850302>>}

DateRanges == {ISORange(e[1], e[2]) : e \in RangeEnds}

\* the ends a range string was written from
EndsOf(dates) == CHOOSE e \in RangeEnds \cup {<<19840101, 19900101>>} : ISORange(e[1], e[2]) = dates

Regions == {CU, AK}

Tars == {SR, BT}

\* the i-th acquisition to arrive in a directory
Arrival(i) ==
    ARDName([tst_attributes EXCEPT !.acqdate = 19850300 + i,
                                   !.contents = IF i % 2 = 1 THEN SR ELSE BT])

WholeRange == ISORange(19840101, 19900101)

----------------------------------------------------------------------------
(* The catalogue calls *)

Unseen == [seen |-> FALSE]

\* history of a call that reaches dirlisting(p) and gets listing
Listed(p, listing) ==
    /\ firstSeen' = IF firstSeen[p].seen THEN firstSeen
                    ELSE [firstSeen EXCEPT ![p] = [seen |-> TRUE, listing |-> listing]]
    /\ since' = [q \in Paths |->
                    IF q = p THEN {}
                    ELSE IF firstSeen[q].seen THEN since[q] \cup {p}
                    ELSE {}]
    /\ kept' = [kept EXCEPT ![p] = @ /\ Cardinality(since[p]) < dirlisting_maxsize]

\* a file appears in a directory
AddFile(p, f) ==
    /\ Len(disk[p]) < MaxListing
    /\ \A i \in 1 .. Len(disk[p]) : disk[p][i] # f
    /\ disk' = [disk EXCEPT ![p] = Append(@, f)]
    /\ UNCHANGED <<call, prev, caches, history, wrapper>>

Filenameattr(filename) ==
    \E r \in {filenameattr_cached(filenameattr_cache, filename)} :
       /\ call' = [op |-> "filenameattr", args |-> [filename |-> filename], result |-> r.res]
       /\ filenameattr_cache' = r.cache
       /\ prev' = call
       /\ UNCHANGED <<disk, tarfiles_cache, filters_cache, dirlisting_cache, history, wrapper>>

Filter_date(filename, dates) ==
    \E r \in {filter_date(filenameattr_cache, filename, dates)} :
       /\ call' = [op |-> "filter_date", args |-> [filename |-> filename, dates |-> dates],
                   result |-> r.res]
       /\ filenameattr_cache' = r.cache
       /\ prev' = call
       /\ UNCHANGED <<disk, tarfiles_cache, filters_cache, dirlisting_cache, history, wrapper>>

Filter_tar(filename, tar) ==
    \E r \in {filter_tar(filenameattr_cache, filename, tar)} :
       /\ call' = [op |-> "filter_tar", args |-> [filename |-> filename, tar |-> tar],
                   result |-> r.res]
       /\ filenameattr_cache' = r.cache
       /\ prev' = call
       /\ UNCHANGED <<disk, tarfiles_cache, filters_cache, dirlisting_cache, history, wrapper>>

Filter_reg(filename, region) ==
    \E r \in {filter_reg(filenameattr_cache, filename, region)} :
       /\ call' = [op |-> "filter_reg", args |-> [filename |-> filename, region |-> region],
                   result |-> r.res]
       /\ filenameattr_cache' = r.cache
       /\ prev' = call
       /\ UNCHANGED <<disk, tarfiles_cache, filters_cache, dirlisting_cache, history, wrapper>>

Dirlisting(p) ==
    \E r \in {dirlisting(dirlisting_cache, p)} :
       /\ call' = [op |-> "dirlisting", args |-> [path |-> p], result |-> r.res]
       /\ dirlisting_cache' = r.cache
       /\ Listed(p, r.res.val)
       /\ UNCHANGED <<prev, disk, tarfiles_cache, filters_cache, filenameattr_cache, wrapper>>

Tarfiles(p, acquired, region, tar) ==
    \E r \in {tarfiles(p, acquired, region, tar)},
       hit \in {CacheHas(tarfiles_cache, <<p, acquired, region, tar>>)} :
        /\ call' = [op |-> "tarfiles",
                    args |-> [path |-> p, acquired |-> acquired, region |-> region,
                              tar |-> tar],
                    result |-> r.res]
        /\ tarfiles_cache' = r.tarfiles_cache
        /\ filters_cache' = r.filters_cache
        /\ dirlisting_cache' = r.dirlisting_cache
        /\ filenameattr_cache' = r.filenameattr_cache
        /\ IF hit THEN UNCHANGED history
           ELSE Listed(p, dirlisting(dirlisting_cache, p).res.val)
        /\ UNCHANGED <<prev, disk, wrapper>>

----------------------------------------------------------------------------
(* retry: the wrapper it puts around func.  func is any function: each of  *)
(* its calls either returns a value or raises an exception.                *)

Exceptions == {"OSError", "ValueError"}

ReturnValues == {"chips", "layers"}

\* no wrapper has been called
NotWrapped ==
    /\ pc = "idle"
    /\ retries = 0
    /\ count = 0
    /\ raised = "none"
    /\ invocations = 0

\* wrapper(*args, **kwargs) is called: count = 0, and into the loop
Wrapper(r) ==
    /\ Fresh
    /\ pc = "idle"
    /\ pc' = "try"
    /\ retries' = r
    /\ count' = 0
    /\ UNCHANGED <<raised, invocations, call, prev, catalogue>>

\* try: return func(*args, **kwargs), and func returns v
FuncReturns(v) ==
    /\ pc = "try"
    /\ invocations' = invocations + 1
    /\ pc' = "returned"
    /\ call' = [op |-> "wrapper", args |-> [retries |-> retries], result |-> Ok(v)]
    /\ UNCHANGED <<retries, count, raised, prev, catalogue>>

\* try: return func(*args, **kwargs), and func raises e
FuncRaises(e) ==
    /\ pc = "try"
    /\ invocations' = invocations + 1
    /\ pc' = "except"
    /\ raised' = e
    /\ UNCHANGED <<retries, count, call, prev, catalogue>>

\* except: if count > retries: raise; count += 1, and around the loop
Except ==
    /\ pc = "except"
    /\ IF count > retries
       THEN /\ pc' = "raised"
            /\ call' = [op |-> "wrapper", args |-> [retries |-> retries],
                        result |-> Raise(raised)]
            /\ UNCHANGED <<count, raised>>
       ELSE /\ pc' = "try"
            /\ count' = count + 1
            /\ raised' = "none"
            /\ UNCHANGED call
    /\ UNCHANGED <<retries, invocations, prev, catalogue>>

Init ==
    /\ call = NoCall
    /\ prev = NoCall
    /\ disk = [p \in Paths |-> <<>>]
    /\ tarfiles_cache = <<>>
    /\ filters_cache = <<>>
    /\ dirlisting_cache = <<>>
    /\ filenameattr_cache = <<>>
    /\ firstSeen = [p \in Paths |-> Unseen]
    /\ since = [p \in Paths |-> {}]
    /\ kept = [p \in Paths |-> TRUE]
    /\ NotWrapped

Next ==
    \/ Ard_hv
    \/ Determine_hvInTile
    \/ Determine_hv
    \/ Ard_hvOfResult
    \/ Fifteen_offset
    \/ Transform_geo
    \/ Transform_rc
    \/ Transform_geoOfResult
    \/ Transform_rcOfResult
    \/ Transform_ext
    \/ Transform_extOfResult
    \/ Extract_chip

Spec == Init /\ [][Next]_vars

(* The parser and the filters: a directory is filled, then tarfiles is     *)
(* called on it with cold caches; the parser and the single filters, which *)
(* read no directory, are called while it is empty, a filter also right    *)
(* after filenameattr, when the cache of filenameattr holds an entry.      *)

NoFiles == disk[0] = <<>>

FileNext ==
    \/ Fresh /\ \E f \in DirectoryFiles : AddFile(0, f)
    \/ Fresh /\ NoFiles /\ \E f \in Filenames : Filenameattr(f)
    \/ (Fresh \/ After("filenameattr")) /\ NoFiles
          /\ \E f \in Filenames, dates \in DateRanges : Filter_date(f, dates)
    \/ Fresh /\ NoFiles /\ \E f \in Filenames, tar \in Tars : Filter_tar(f, tar)
    \/ (Fresh \/ After("filenameattr")) /\ NoFiles
          /\ \E f \in Filenames, region \in Regions : Filter_reg(f, region)
    \/ Fresh /\ \E dates \in DateRanges, region \in Regions, tar \in Tars :
                   Tarfiles(0, dates, region, tar)

FileSpec == Init /\ [][FileNext]_vars

(* The catalogue of a long run: acquisitions arrive in directory 0 while   *)
(* it is listed and queried, and the run moves on through the other tile   *)
(* directories, one after the other, the way timeseries queries them.      *)

NextPath == Cardinality({p \in Paths : firstSeen[p].seen})

CacheInit ==
    /\ call = NoCall
    /\ prev = NoCall
    /\ disk = [p \in Paths |-> IF p = 0 THEN <<>> ELSE <<Arrival(1)>>]
    /\ tarfiles_cache = <<>>
    /\ filters_cache = <<>>
    /\ dirlisting_cache = <<>>
    /\ filenameattr_cache = <<>>
    /\ firstSeen = [p \in Paths |-> Unseen]
    /\ since = [p \in Paths |-> {}]
    /\ kept = [p \in Paths |-> TRUE]
    /\ NotWrapped

CacheNext ==
    \/ AddFile(0, Arrival(Len(disk[0]) + 1))
    \/ Dirlisting(0)
    \/ \E tar \in Tars : Tarfiles(0, WholeRange, CU, tar)
    \/ firstSeen[0].seen /\ NextPath \in Paths /\ Tarfiles(NextPath, WholeRange, CU, SR)

CacheSpec == CacheInit /\ [][CacheNext]_vars

(* A function wrapped by retry is called once. *)

RetryNext ==
    \/ \E r \in 0 .. MaxRetries : Wrapper(r)
    \/ \E v \in ReturnValues : FuncReturns(v)
    \/ \E e \in Exceptions : FuncRaises(e)
    \/ Except

RetrySpec == Init /\ [][RetryNext]_vars

----------------------------------------------------------------------------
(* Claims about the geometry *)

StrictlyInside(p, ext) ==
    /\ ext.t[1] < p.t[1] /\ p.t[1] < ext.t[3]
    /\ ext.t[4] < p.t[2] /\ p.t[2] < ext.t[2]

\* q is the quotient n / d truncated toward zero: the remainder is smaller
\* than the divisor and, unless zero, has the sign of the dividend
IsTruncatedQuotient(q, n, d) ==
    LET r == n - q * d
    IN  Abs(r) < Abs(d) /\ (r = 0 \/ (r < 0) = (n < 0))

OnPixelBoundary(c, aff) ==
    /\ (c.t[1] - aff[1]) % Abs(aff[2]) = 0
    /\ (c.t[2] - aff[4]) % Abs(aff[6]) = 0

\* C1: determine_hv, with the tile grid affine of the reference extent, on a
\* point strictly inside the extent ard_hv(h, v, ref) returned gives (h, v),
\* h first and v second.
C1_RoundTripTileLookup ==
    (/\ call.op = "determine_hv"
     /\ prev.op = "ard_hv"
     /\ call.args.aff = TileGridAffine(prev.args.extent)
     /\ StrictlyInside(call.args.coord, prev.result[1]))
    => call.result = <<prev.args.h, prev.args.v>>

C1_Witness ==
    /\ call.op = "determine_hv"
    /\ prev.op = "ard_hv"
    /\ prev.args.h = 1 /\ prev.args.v = 2
    /\ prev.args.extent = ardconus
    /\ StrictlyInside(call.args.coord, prev.result[1])
    /\ call.result = <<1, 2>>

C3_MutualInverses ==
    /\ (call.op = "transform_geo" /\ prev.op = "transform_rc" /\ IsZeroRot(call.args.affine))
          => call.result = prev.args.rowcol
    /\ (/\ call.op = "transform_rc" /\ prev.op = "transform_geo"
        /\ IsZeroRot(call.args.affine)
        /\ OnPixelBoundary(prev.args.coord, call.args.affine))
          => call.result = prev.args.coord

C3_Witness ==
    /\ call.op = "transform_geo"
    /\ prev.op = "transform_rc"
    /\ IsZeroRot(call.args.affine)
    /\ prev.args.rowcol = RowColumn(-2, -3)
    /\ call.result = RowColumn(-2, -3)

AlignedGeoExtent(ext, aff) ==
    /\ ext.cls = "GeoExtent"
    /\ OnPixelBoundary(GeoCoordinate(ext.t[1], ext.t[2]), aff)
    /\ OnPixelBoundary(GeoCoordinate(ext.t[3], ext.t[4]), aff)

\* C4: with a zero-rotation affine, transform_ext applied twice returns the
\* extent it started from: a pixel-aligned GeoExtent goes to the
\* RowColumnExtent (st_row, st_col, end_row, end_col) of its corners and
\* back, and every RowColumnExtent goes to a GeoExtent and back.
C4_TransformExtInvolution ==
    (call.op = "transform_ext" /\ prev.op = "transform_ext") =>
        LET ext == prev.args.extent
            mid == prev.result
            a == call.args.affine
        IN  /\ AlignedGeoExtent(ext, a) =>
                /\ mid.cls = "RowColumnExtent"
                /\ mid.t[1] * a[6] = ext.t[2] - a[4]
                /\ mid.t[2] * a[2] = ext.t[1] - a[1]
                /\ mid.t[3] * a[6] = ext.t[4] - a[4]
                /\ mid.t[4] * a[2] = ext.t[3] - a[1]
                /\ call.result = ext
            /\ ext.cls = "RowColumnExtent" =>
                /\ mid.cls = "GeoExtent"
                /\ call.result = ext

C4_Witness ==
    /\ call.op = "transform_ext"
    /\ prev.op = "transform_ext"
    /\ call.args.affine = tst_aff
    /\ prev.args.extent = GeoExtent(-1701585, 3005805, -1701555, 3005775)
    /\ prev.result = RowColumnExtent(300, 3800, 301, 3801)
    /\ call.result = prev.args.extent

\* C5: fifteen_offset(val) is floor(val / 30) * 30 + 15: the result r is 15
\* modulo 30 and r - 15 <= val < r + 15; 0, 1 and 29 give 15, -1 gives -15
\* and 30 gives 45.
C5_FifteenOffset ==
    call.op = "fifteen_offset" =>
        LET val == call.args.val
            r == call.result
        IN  /\ r % 30 = 15
            /\ r - 15 <= val /\ val < r + 15
            /\ (val \in {0, 1, 29} => r = 15)
            /\ (val = -1 => r = -15)
            /\ (val = 30 => r = 45)

C5_Witness ==
    /\ call.op = "fifteen_offset"
    /\ call.args.val = -31
    /\ call.result = -45

\* C10: extract_chip hands the raster read a window 100 pixels wide and 100
\* pixels high, for every zero-rotation chip affine and every zero-rotation
\* raster affine of resolution (30, -30).
C10_ChipWindowIs100x100 ==
    (/\ call.op = "extract_chip"
     /\ IsZeroRot(call.args.chip_aff)
     /\ IsZeroRot(call.args.raster_aff)
     /\ call.args.raster_aff[2] = 30 /\ call.args.raster_aff[6] = -30)
    => (call.result.xsize = 100 /\ call.result.ysize = 100)

\* C11: the tile determine_hv returns contains the coordinate: with
\* (h, v) = determine_hv(c, G), G the tile grid affine of ref, the extent of
\* ard_hv(h, v, ref) satisfies xmin <= c.x < xmax and ymin < c.y <= ymax,
\* also for c west of ref.xmin or north of ref.ymax.
C11_TileContainsCoordinate ==
    (call.op = "ard_hv" /\ prev.op = "determine_hv") =>
        LET c == prev.args.coord
            ext == call.result[1]
        IN  /\ ext.t[1] <= c.t[1] /\ c.t[1] < ext.t[3]
            /\ ext.t[4] < c.t[2] /\ c.t[2] <= ext.t[2]

----------------------------------------------------------------------------
(* Claims about the parser, the filters and the catalogue *)

\* the names of the model that filenameattr parses although they are not
\* well-formed, with the attributes it reads from them
ParsedAnyway == {NineFields, LongHV}

Parses(name) == name \in WellFormedNames \cup ParsedAnyway

ExpectedAttributes(name) ==
    IF name \in WellFormedNames THEN AttributesOf(name)
    ELSE IF name = NineFields THEN [tst_attributes EXCEPT !.contents = QA]
    ELSE tst_attributes

\* the characters before '.tar'
ExpectedSuffix(name) ==
    IF name \in WellFormedNames THEN AttributesOf(name).contents ELSE SR

IsNumeric(s) == s # <<>> /\ \A i \in 1 .. Len(s) : IsDigit(s[i])

\* C8: filter_date is true exactly when from <= acquisition date <= to, the
\* three compared as integers, both ends inclusive.
C8_FilterDateInclusive ==
    (call.op = "filter_date" /\ Parses(call.args.filename)) =>
        LET e == EndsOf(call.args.dates)
            acq == ExpectedAttributes(call.args.filename).acqdate
        IN  /\ call.result = Ok(e[1] <= acq /\ acq <= e[2])
            /\ (call.args.filename = tst_filename /\ e = <<19840101, 19850302>>
                    => call.result = Ok(TRUE))
            /\ (call.args.filename = tst_filename /\ e = <<19850303, 19870101>>
                    => call.result = Ok(FALSE))

\* acquired on the last day of the range
C8_Witness ==
    /\ call.op = "filter_date"
    /\ call.args.filename = tst_filename
    /\ call.args.dates = ISORange(19840101, 19850302)
    /\ call.result = Ok(TRUE)

\* C9 as claimed: filenameattr raises for every name that does not split
\* into exactly 8 fields or whose H/V field, acquisition date or processing
\* date is not numeric.
C9_MalformedAlwaysRaises ==
    call.op = "filenameattr" =>
        LET fields == split(DropLast4(call.args.filename), "_")
        IN  (\/ Len(fields) # 8
             \/ ~IsNumeric(fields[3]) \/ ~IsNumeric(fields[4]) \/ ~IsNumeric(fields[5]))
            => call.result.err # "none"

\* C9, amended: filenameattr raises when the name splits into fewer than 8
\* fields, or when the first three characters of the third field, its last
\* three characters, the fourth or the fifth field is not an integer
\* literal; otherwise it returns the first 8 fields, h read from the first
\* three and v from the last three characters of the third, whatever
\* follows the eighth field and whatever stands between those characters.
C9_FilenameattrParse ==
    call.op = "filenameattr" =>
        LET name == call.args.filename
            fields == split(DropLast4(name), "_")
            bad == \/ Len(fields) < 8
                   \/ \E x \in {First3(fields[3]), Last3(fields[3]), fields[4], fields[5]} :
                          int(x).err # "none"
        IN  /\ bad => call.result.err \in {"IndexError", "ValueError"}
            /\ ~bad => call.result = Ok(ExpectedAttributes(name))
            /\ bad = ~Parses(name)

\* nine fields: the ninth is ignored
C9_Witness ==
    /\ call.op = "filenameattr"
    /\ call.args.filename = NineFields
    /\ call.result.err = "none"
    /\ call.result.val.contents = QA
    /\ call.result.val.h = 5 /\ call.result.val.v = 2

\* the six orders of the three filters; below, listing is the directory
\* listing the call filtered
FilterOrders(fs) ==
    {<<fs[a], fs[b], fs[c]>> : a, b, c \in 1 .. 3} \ 
        {o \in {<<fs[a], fs[b], fs[c]>> : a, b, c \in 1 .. 3} :
            \E i, j \in 1 .. 3 : i # j /\ o[i] = o[j]}

\* what tarfiles is to return from a listing whose names all parse
ExpectedFiles(listing, acquired, region, tar) ==
    LET e == EndsOf(acquired)
        Wanted(x) ==
            /\ e[1] <= ExpectedAttributes(x).acqdate
            /\ ExpectedAttributes(x).acqdate <= e[2]
            /\ ExpectedSuffix(x) = tar
            /\ ExpectedAttributes(x).region = region
    IN  SelectSeq(listing, Wanted)

\* C6 as claimed: tarfiles returns the names of the listing that pass the
\* three filters, in listing order, and with the filters taken in any other
\* order the call returns the same list or raises the same error.
C6_OrderIrrelevant ==
    call.op = "tarfiles" =>
        LET a == call.args
            listing == CacheGet(dirlisting_cache, a.path)
        IN  \A order \in FilterOrders(filters(a.acquired, a.region, a.tar)) :
                select_files(<<>>, order, listing).res = call.result

\* C6, amended: over a listing whose names all parse, tarfiles returns the
\* names that pass the three filters, in listing order, whatever the order
\* of the filters; over a listing with a name that does not parse it raises
\* the error of the first such name, as does every order that starts with
\* the date or the region filter.
C6_TarfilesSelects ==
    call.op = "tarfiles" =>
        LET a == call.args
            listing == CacheGet(dirlisting_cache, a.path)
            unparsed == {i \in 1 .. Len(listing) : ~Parses(listing[i])}
            orders == FilterOrders(filters(a.acquired, a.region, a.tar))
        IN  IF unparsed = {}
            THEN /\ call.result = Ok(ExpectedFiles(listing, a.acquired, a.region, a.tar))
                 /\ \A order \in orders : select_files(<<>>, order, listing).res = call.result
            ELSE LET first == CHOOSE i \in unparsed : \A j \in unparsed : i <= j
                 IN  /\ call.result = filenameattr(listing[first])
                     /\ call.result.err # "none"
                     /\ \A order \in orders :
                            order[1].f # "filter_tar"
                                => select_files(<<>>, order, listing).res = call.result

\* two matching names, returned in listing order, a third name filtered out
C6_Witness ==
    /\ call.op = "tarfiles"
    /\ disk[0] = <<ARDName([tst_attributes EXCEPT !.acqdate = 19850303]), tst_filename>>
    /\ call.args.acquired = ISORange(19850302, 19900101)
    /\ call.args.region = CU /\ call.args.tar = SR
    /\ call.result = Ok(disk[0])

\* what tarfiles returns from a listing of well-formed names
Selected(listing, a) ==
    select_files(<<>>, filters(a.acquired, a.region, a.tar), listing).res

\* C7 as claimed: once a directory has been listed, every later dirlisting
\* of it returns what the first one returned, and every later tarfiles on
\* it the files selected from that.
C7_NeverRefreshed ==
    /\ call.op = "dirlisting" => call.result = Ok(firstSeen[call.args.path].listing)
    /\ call.op = "tarfiles" =>
          call.result = Selected(firstSeen[call.args.path].listing, call.args)

\* C7, amended: the same, for a directory p such that fewer than 9 other
\* directories were listed between any two consecutive listings of p (calls
\* of dirlisting, by tarfiles on a miss of its own cache included); with 9
\* or more, dirlisting has dropped p and reads the directory again.
C7_StaleWhileKept ==
    /\ (call.op = "dirlisting" /\ kept[call.args.path])
          => call.result = Ok(firstSeen[call.args.path].listing)
    /\ (call.op = "tarfiles" /\ kept[call.args.path])
          => call.result = Selected(firstSeen[call.args.path].listing, call.args)

\* a stale listing of directory 0, every other directory but one listed since
C7_Witness ==
    /\ call.op = "dirlisting"
    /\ call.args.path = 0
    /\ kept[0]
    /\ Len(dirlisting_cache) = dirlisting_maxsize
    /\ call.result = Ok(firstSeen[0].listing)
    /\ disk[0] # firstSeen[0].listing

----------------------------------------------------------------------------
(* Claims about retry *)

\* C12: retry(retries) bounds the attempts by its argument: when func raises
\* on every call, the wrapper has called it exactly retries + 1 times when
\* the exception propagates to the caller.
C12_RetriesPlusOneInvocations ==
    pc = "raised" => invocations = retries + 1

====
